---- MODULE Spec2Model ----
(***************************************************************************)
(* The default path manager of the Spring engine (CPathManager): the      *)
(* registry of hierarchical paths (MultiPath), request routing over the   *)
(* three search tiers, the two refinement operators and waypoint          *)
(* delivery.  Positions live on a line of grid points so that every       *)
(* distance test of the code can come out either way.                     *)
(***************************************************************************)
EXTENDS Integers, Sequences, FiniteSets, TLC

VARIABLES pathMap,      \* std::map<unsigned int, MultiPath*> pathMap
          nextPathID,   \* unsigned int nextPathID
          liveRecords,  \* MultiPath objects allocated with new and not yet deleted
          medResPE,     \* medium estimator: rectangles reported and not yet worked off
          lowResPE,     \* low estimator: rectangles reported and not yet worked off
          issued,       \* history: handles returned by requests that stored a record
          deleted,      \* history: stored handles that DeletePath has removed
          extraCost     \* extra-cost overlays of the node-state buffers of the three tiers

vars == <<pathMap, nextPathID, liveRecords, medResPE, lowResPE, issued, deleted, extraCost>>

-----------------------------------------------------------------------------
(* Bounds of the model *)

MaxIdx == 3          \* grid points 0..MaxIdx on the line
UIntBits == 2        \* width of unsigned int in the model (32 in the build)
MaxLive == 2         \* MultiPath objects that may be allocated at once
MaxPaths == 2        \* paths followed one after the other under Spec
MaxMapX == 2         \* cells of the grid along x for the extra-cost overlays

(* Program constants *)

SQUARE_SIZE == 8
DETAILED_DISTANCE == 25
ESTIMATE_DISTANCE == 55
MIN_ESTIMATE_DISTANCE == 40
MIN_DETAILED_DISTANCE == 12
MaxRetries == 4

-----------------------------------------------------------------------------
(* float3 *)

Vec(x, y, z) == [x |-> x, y |-> y, z |-> z]
ZeroVector == Vec(0, 0, 0)
noPathPoint == Vec(0 - 1, 0, 0 - 1)

Abs(n) == IF n < 0 THEN 0 - n ELSE n
Max(a, b) == IF a < b THEN b ELSE a
Min(a, b) == IF a < b THEN a ELSE b
Square(n) == n * n

(* neighbouring grid points are 20 squares apart *)
GridStep == 20 * SQUARE_SIZE

SqDistance2D(a, b) == Square(a.x - b.x) + Square(a.z - b.z)

MapSizeX == MaxIdx * GridStep

ClampInBounds(p) == [p EXCEPT !.x = Max(0, Min(MapSizeX, p.x)), !.z = Max(0, Min(0, p.z))]

(* terrain height at a grid point; waypoints of a search lie on the ground *)
Height(i) == 2 * SQUARE_SIZE * (i % 2)
WP(i) == Vec(i * GridStep, Height(i), 0)
Idx(p) == p.x \div GridStep
Cell(p) == <<p.x \div SQUARE_SIZE, p.z \div SQUARE_SIZE>>

GridPos == {WP(i) : i \in 0..MaxIdx}
OutOfMap == Vec((MaxIdx + 1) * GridStep, 0, 0)

Back(s) == s[Len(s)]
PopBack(s) == SubSeq(s, 1, Len(s) - 1)

-----------------------------------------------------------------------------
(* IPath::Path and the search engines *)

EmptyPath == [path |-> <<>>, squares |-> <<>>, pathGoal |-> ZeroVector]

(* waypoints from start (exclusive) to goal (inclusive), nearest one at the tail *)
Chain(s, g) ==
    IF s = g THEN <<>>
    ELSE IF s < g THEN [k \in 1..(g - s) |-> WP(g - k + 1)]
    ELSE [k \in 1..(s - g) |-> WP(g + k - 1)]

Outcomes(startPos, goalPos) ==
    IF Idx(startPos) = Idx(goalPos)
    THEN {"CantGetCloser", "Error"}
    ELSE {"Ok", "CantGetCloser", "GoalOutOfRange", "Error"}

GetPath(outcome, startPos, goalPos, old) ==
    LET full == Chain(Idx(startPos), Idx(goalPos))
        p == CASE outcome = "Ok" -> full
               [] outcome = "GoalOutOfRange" -> IF full = <<>> THEN <<>> ELSE Tail(full)
               [] OTHER -> <<>>
    IN  [path |-> p,
         squares |-> [k \in DOMAIN p |-> Cell(p[k])],
         pathGoal |-> IF outcome \in {"Ok", "GoalOutOfRange"}
                      THEN (IF p = <<>> THEN WP(Idx(startPos)) ELSE Head(p))
                      ELSE old.pathGoal]

Heuristic(startPos, goalPos) ==
    Max(Abs(startPos.x - goalPos.x), Abs(startPos.z - goalPos.z)) \div SQUARE_SIZE

-----------------------------------------------------------------------------
(* Execution context of one call: the record worked on, the outcome of the *)
(* last search, the events so far and whether the entity is blocking       *)

Bind(S, F(_)) == UNION {F(c) : c \in S}

Event(c, e) == [c EXCEPT !.ev = Append(@, e)]

UnBlock(c) == IF c.mp.caller # "NULL"
              THEN [Event(c, [e |-> "UnBlock"]) EXCEPT !.blk = FALSE]
              ELSE c

Block(c) == IF c.mp.caller # "NULL"
            THEN [Event(c, [e |-> "Block"]) EXCEPT !.blk = TRUE]
            ELSE c

DisableConstraintNot(c) == c

(* pfDef->DisableConstraint(true) *)
DisableConstraint(c) == [c EXCEPT !.mp.peDef.constraintDisabled = TRUE]

(* one GetPath call of an engine into one tier, for every outcome *)
Search(c, engine, tier, startPos, goalPos, def) ==
    { [Event(c, [e |-> engine, def |-> def, goal |-> goalPos,
                 unconstrained |-> (def = "peDef" /\ c.mp.peDef.constraintDisabled),
                 blk |-> c.blk, res |-> o])
          EXCEPT !.mp[tier] = GetPath(o, startPos, goalPos, c.mp[tier]),
                 !.res = o]
      : o \in Outcomes(startPos, goalPos) }

(* a search of the request itself: its outcome becomes RequestPath's result *)
RequestSearch(c, engine, tier, startPos) ==
    { [r EXCEPT !.result = r.res]
      : r \in Search(c, engine, tier, startPos, c.mp.peDef.goalPos, "peDef") }

-----------------------------------------------------------------------------
(* Refinement operators *)

DropNearNone(path, startPos, sqDist) == path

RECURSIVE DropNear(_, _, _)
(* while (!path.empty() && path.back().SqDistance2D(startPos) < sqDist) path.pop_back() *)
DropNear(path, startPos, sqDist) ==
    IF path # <<>> /\ SqDistance2D(Back(path), startPos) < sqDist
    THEN DropNear(PopBack(path), startPos, sqDist)
    ELSE path

RefineGoalStored(path, pathGoal) == pathGoal

(* lines 219-225 and 265-271 *)
RefineGoal(path, pathGoal) == IF path = <<>> THEN pathGoal ELSE Back(path)

NoRefinedPathNotOk(res) == res # "Ok"

(* lines 241 and 287 *)
NoRefinedPath(res) == res = "CantGetCloser" \/ res = "Error"

MedRes2MaxRes(c, startPos) ==
    IF c.mp.medResPath.path = <<>> THEN {c}
    ELSE LET rest == DropNear(PopBack(c.mp.medResPath.path), startPos,
                              Square(DETAILED_DISTANCE * SQUARE_SIZE))
             goalPos == RefineGoal(rest, c.mp.medResPath.pathGoal)
             c1 == [c EXCEPT !.mp.medResPath.path = rest]
             S == IF rest = <<>> /\ c.mp.lowResPath.path = <<>>
                  THEN Search(c1, "maxResPF", "maxResPath", startPos, c.mp.peDef.goalPos, "peDef")
                  ELSE Search(c1, "maxResPF", "maxResPath", startPos, goalPos, "ranged")
         IN  { IF NoRefinedPath(r.res)
               THEN [r EXCEPT !.mp.maxResPath.pathGoal = goalPos]
               ELSE r
               : r \in S }

LowRes2MedRes(c, startPos) ==
    IF c.mp.lowResPath.path = <<>> THEN {c}
    ELSE LET rest == DropNear(PopBack(c.mp.lowResPath.path), startPos,
                              Square(ESTIMATE_DISTANCE * SQUARE_SIZE))
             goalPos == RefineGoal(rest, c.mp.lowResPath.pathGoal)
             c1 == [c EXCEPT !.mp.lowResPath.path = rest]
             S == IF rest = <<>>
                  THEN Search(c1, "medResPE", "medResPath", startPos, c.mp.peDef.goalPos, "peDef")
                  ELSE Search(c1, "medResPE", "medResPath", startPos, goalPos, "ranged")
         IN  { IF NoRefinedPath(r.res)
               THEN [r EXCEPT !.mp.medResPath.pathGoal = goalPos]
               ELSE r
               : r \in S }

-----------------------------------------------------------------------------
(* RequestPath *)

NewMultiPath(goalPos, caller) ==
    [maxResPath |-> EmptyPath, medResPath |-> EmptyPath, lowResPath |-> EmptyPath,
     searchResult |-> "Error", finalGoal |-> goalPos, caller |-> caller,
     peDef |-> [goalPos |-> goalPos, constraintDisabled |-> FALSE]]

NewContext(mp) ==
    [mp |-> mp, res |-> "Error", result |-> "Error", ev |-> <<>>, blk |-> TRUE,
     dummy |-> FALSE, acts |-> <<>>, waypoint |-> noPathPoint, startPos |-> ZeroVector]

TooFarOrAt(startPos, goalPos, goalRadius) ==
    SqDistance2D(startPos, goalPos) >= Square(goalRadius)

(* (startPos - goalPos).SqLength2D() > pfDef->sqGoalRadius *)
TooFar(startPos, goalPos, goalRadius) ==
    SqDistance2D(startPos, goalPos) > Square(goalRadius)

GoalDist2D(startPos, goalPos) ==
    Heuristic(startPos, goalPos) + Abs(goalPos.y - startPos.y) \div SQUARE_SIZE

ShortBandUnconstrained(c0, startPos) ==
    LET S1 == RequestSearch(c0, "maxResPF", "maxResPath", startPos)
        S2 == Bind(S1, LAMBDA c : IF c.result # "Ok"
                                  THEN RequestSearch(DisableConstraint(c), "medResPE",
                                                     "medResPath", startPos)
                                  ELSE {DisableConstraint(c)})
    IN  Bind(S2, LAMBDA c : IF c.result # "Ok"
                            THEN RequestSearch(c, "lowResPE", "lowResPath", startPos)
                            ELSE {c})

(* lines 105-122; PM_UNCONSTRAINED_MAXRES_FALLBACK_SEARCH is 0, so line 112 *)
(* is compiled out and the constraint stays as the request set it          *)
ShortBand(c0, startPos) ==
    LET S1 == RequestSearch(c0, "maxResPF", "maxResPath", startPos)
        S2 == Bind(S1, LAMBDA c : IF c.result # "Ok"
                                  THEN RequestSearch(c, "medResPE", "medResPath", startPos)
                                  ELSE {c})
    IN  Bind(S2, LAMBDA c : IF c.result # "Ok"
                            THEN RequestSearch(c, "lowResPE", "lowResPath", startPos)
                            ELSE {c})

MediumBand(c0, startPos, goalRadius) ==
    LET S1 == RequestSearch(c0, "medResPE", "medResPath", startPos)
        S2 == Bind(S1, LAMBDA c :
                  IF c.result = "CantGetCloser" /\ TooFar(startPos, c.mp.finalGoal, goalRadius)
                  THEN RequestSearch(c, "maxResPF", "maxResPath", startPos)
                  ELSE {c})
    IN  Bind(S2, LAMBDA c : IF c.result # "Ok"
                            THEN RequestSearch(DisableConstraint(c), "medResPE", "medResPath", startPos)
                            ELSE {DisableConstraint(c)})

LongBand(c0, startPos, goalRadius) ==
    LET S1 == RequestSearch(c0, "lowResPE", "lowResPath", startPos)
        S2 == Bind(S1, LAMBDA c :
                  IF c.result = "CantGetCloser" /\ TooFar(startPos, c.mp.finalGoal, goalRadius)
                  THEN Bind(RequestSearch(c, "medResPE", "medResPath", startPos),
                            LAMBDA d : IF d.result = "CantGetCloser"
                                       THEN RequestSearch(d, "maxResPF", "maxResPath", startPos)
                                       ELSE {d})
                  ELSE {c})
    IN  Bind(S2, LAMBDA c : IF c.result # "Ok"
                            THEN RequestSearch(DisableConstraint(c), "lowResPE", "lowResPath", startPos)
                            ELSE {DisableConstraint(c)})

InstallDummy(c, startPos) ==
    IF c.mp.maxResPath.path = <<>>
    THEN [c EXCEPT !.mp.maxResPath.path = Append(@, startPos),
                   !.mp.maxResPath.squares = Append(@, Cell(startPos)),
                   !.dummy = TRUE]
    ELSE c

(* lines 158-174: what is done to the record when the result is not Error *)
Finish(c, startPos) ==
    IF c.result # "CantGetCloser"
    THEN Bind(LowRes2MedRes(c, startPos), LAMBDA d : MedRes2MaxRes(d, startPos))
    ELSE {InstallDummy(c, startPos)}

ShouldStoreAlways(result) == TRUE

(* line 158 *)
ShouldStore(result) == result # "Error"

CompleteErrorReturns(c, startPos) ==
    IF ShouldStore(c.result)
    THEN { Block([d EXCEPT !.mp.searchResult = c.result]) : d \in Finish(c, startPos) }
    ELSE { Event(c, [e |-> "delete"]) }

(* lines 158-186: from the final result to the return *)
Complete(c, startPos) ==
    IF ShouldStore(c.result)
    THEN { Block([d EXCEPT !.mp.searchResult = c.result]) : d \in Finish(c, startPos) }
    ELSE { Block(Event(c, [e |-> "delete"])) }

(* lines 88-156: the new record, the unblock and the searches of the band *)
TierSearches(startPos, goalPos, goalRadius, caller) ==
    LET c0 == UnBlock(Event([NewContext(NewMultiPath(goalPos, caller))
                                EXCEPT !.startPos = startPos],
                            [e |-> "new"]))
        goalDist2D == GoalDist2D(startPos, goalPos)
    IN  IF goalDist2D < DETAILED_DISTANCE THEN ShortBand(c0, startPos)
        ELSE IF goalDist2D < ESTIMATE_DISTANCE THEN MediumBand(c0, startPos, goalRadius)
        ELSE LongBand(c0, startPos, goalRadius)

(* every way one RequestPath call can run, up to its return *)
RequestPathRuns(startPos, goalPos, goalRadius, caller) ==
    Bind(TierSearches(startPos, goalPos, goalRadius, caller),
         LAMBDA c : Complete(c, startPos))

(* lines 54-70: the request as callers make it *)
RequestPathCall(start, goal, goalRadius, caller) ==
    RequestPathRuns(ClampInBounds(start), ClampInBounds(goal), goalRadius, caller)

UIntMod == 2 ^ UIntBits

(* ++nextPathID *)
NextID(id) == (id + 1) % UIntMod

(* pathMap[id] = path *)
Store(pm, id, mp) == [h \in DOMAIN pm \cup {id} |-> IF h = id THEN mp ELSE pm[h]]

Count(ev, e) == Cardinality({k \in DOMAIN ev : ev[k].e = e})

(* what a run of RequestPath leaves behind and returns *)
RequestPathEffect(c) ==
    LET live == liveRecords + Count(c.ev, "new") - Count(c.ev, "delete")
    IN  IF ShouldStore(c.result)
        THEN [pathMap |-> Store(pathMap, NextID(nextPathID), c.mp),
              nextPathID |-> NextID(nextPathID), liveRecords |-> live,
              pathID |-> NextID(nextPathID)]
        ELSE [pathMap |-> pathMap, nextPathID |-> nextPathID, liveRecords |-> live,
              pathID |-> 0]

(* a goal that must be reached and one that any start on the map is within *)
Radii == {0, MapSizeX}
Callers == {"NULL", "unit"}
RequestPositions == GridPos \cup {OutOfMap}

RequestPath(start, goal, goalRadius, caller) ==
    \E c \in RequestPathCall(start, goal, goalRadius, caller) :
       LET eff == RequestPathEffect(c)
       IN  /\ pathMap' = eff.pathMap
           /\ nextPathID' = eff.nextPathID
           /\ liveRecords' = eff.liveRecords
           /\ issued' = IF ShouldStore(c.result) THEN issued \cup {eff.pathID} ELSE issued
           /\ UNCHANGED <<medResPE, lowResPE, deleted, extraCost>>

(* synced is handed on to the searches; Store takes the next handle for *)
(* a synced and for an unsynced request alike                           *)
RequestPathSynced(start, goal, goalRadius, caller, synced) ==
    RequestPath(start, goal, goalRadius, caller)

-----------------------------------------------------------------------------
(* NextWayPoint *)

NULL == [null |-> TRUE]
IsNull(mp) == "null" \in DOMAIN mp

GetMultiPath(pm, pathID) == IF pathID \in DOMAIN pm THEN pm[pathID] ELSE NULL

ResetYNever(waypoint) == waypoint

(* line 377 *)
ResetY(waypoint) == [waypoint EXCEPT !.y = 0]

Return(c, waypoint) == [c EXCEPT !.waypoint = ResetY(waypoint)]

Activation(c, numRetries, fine, iters) ==
    [c EXCEPT !.acts = Append(@, [n |-> numRetries, fine |-> fine, iters |-> iters])]

TooManyRetriesLate(numRetries) == numRetries > MaxRetries + 1

(* line 312 *)
TooManyRetries(numRetries) == numRetries > MaxRetries

NeedsDetail(mp, callerPos) ==
    /\ mp.medResPath.path # <<>>
    /\ \/ SqDistance2D(Back(mp.medResPath.path), callerPos)
             < Square(MIN_DETAILED_DISTANCE * SQUARE_SIZE)
       \/ Len(mp.maxResPath.path) <= 2

NeedsEstimate(mp, callerPos) ==
    /\ mp.lowResPath.path # <<>>
    /\ \/ SqDistance2D(Back(mp.lowResPath.path), callerPos)
             < Square(MIN_ESTIMATE_DISTANCE * SQUARE_SIZE)
       \/ Len(mp.medResPath.path) <= 2

(* lines 325-346 *)
Better(c, callerPos) ==
    IF NeedsDetail(c.mp, callerPos)
    THEN LET S == IF NeedsEstimate(c.mp, callerPos)
                  THEN LowRes2MedRes(c, callerPos)
                  ELSE {c}
         IN  Bind(S, LAMBDA d : { Block(r) : r \in MedRes2MaxRes(UnBlock(d), callerPos) })
    ELSE {c}

KeepPopping(callerPos, waypoint, minDistance, pathGoal) ==
    SqDistance2D(callerPos, waypoint) < Square(minDistance) /\ waypoint # pathGoal

AllTiersEmpty(mp) ==
    mp.maxResPath.path = <<>> /\ mp.medResPath.path = <<>> /\ mp.lowResPath.path = <<>>

FinalGoalAlways(mp) == mp.finalGoal

(* lines 359-364 *)
FinalWaypoint(mp) == IF mp.searchResult = "Ok" THEN mp.finalGoal ELSE noPathPoint

(* lines 320-323: the position NextWayPoint works with *)
EffectiveCallerPos(mp, callerPos) ==
    IF callerPos = ZeroVector /\ mp.maxResPath.path # <<>>
    THEN Back(mp.maxResPath.path)
    ELSE callerPos

RECURSIVE NextWayPoint(_, _, _, _, _), PopLoop(_, _, _, _, _, _, _)

(* one pass through the body of the do-while loop, lines 350-373 *)
PopLoop(c, pathID, callerPos, minDistance, numRetries, fine, iters) ==
    IF c.mp.maxResPath.path = <<>>
    THEN IF c.mp.lowResPath.path = <<>> /\ c.mp.medResPath.path = <<>>
         THEN { Return(Activation(c, numRetries, fine, iters + 1), FinalWaypoint(c.mp)) }
         ELSE { Return(r, r.waypoint)
                : r \in NextWayPoint(Activation(c, numRetries, fine, iters + 1),
                                     pathID, callerPos, minDistance, numRetries + 1) }
    ELSE LET waypoint == Back(c.mp.maxResPath.path)
             c1 == [c EXCEPT !.mp.maxResPath.path = PopBack(@)]
         IN  IF KeepPopping(callerPos, waypoint, minDistance, c1.mp.maxResPath.pathGoal)
             THEN PopLoop(c1, pathID, callerPos, minDistance, numRetries, fine, iters + 1)
             ELSE { Return(Activation(c1, numRetries, fine, iters + 1), waypoint) }

(* c.mp is what GetMultiPath(pathID) finds: the record or NULL *)
NextWayPoint(c, pathID, callerPos0, minDistance, numRetries) ==
    IF pathID = 0 THEN { Activation([c EXCEPT !.waypoint = noPathPoint], numRetries, 0, 0) }
    ELSE IF TooManyRetries(numRetries)
    THEN { Activation([c EXCEPT !.waypoint = noPathPoint], numRetries, 0, 0) }
    ELSE IF IsNull(c.mp)
    THEN { Activation([c EXCEPT !.waypoint = noPathPoint], numRetries, 0, 0) }
    ELSE LET callerPos == EffectiveCallerPos(c.mp, callerPos0)
         IN  Bind(Better(c, callerPos),
                  LAMBDA d : PopLoop(d, pathID, callerPos, minDistance, numRetries,
                                     Len(d.mp.maxResPath.path), 0))

(* every way one NextWayPoint call can run on the registry as it is *)
NextWayPointRuns(pathID, callerPos, minDistance, numRetries) ==
    NextWayPoint(NewContext(GetMultiPath(pathMap, pathID)),
                 pathID, callerPos, minDistance, numRetries)

(* the registry after a run: the record behind the handle is the one worked on *)
NextWayPointEffect(pathID, c) ==
    IF IsNull(c.mp) THEN pathMap ELSE [pathMap EXCEPT ![pathID] = c.mp]

Handles == 0..(UIntMod - 1)
CallerPositions == GridPos \cup {Vec(0, Height(1), 0)}
MinDistances == {0, DETAILED_DISTANCE * SQUARE_SIZE}
RetryDepths == {0, MaxRetries, MaxRetries + 1}

(* a call that returns before it reads callerPos and minDistance is tried with *)
(* one value of each                                                          *)
ReturnsAtOnce(pathID, numRetries) ==
    pathID = 0 \/ TooManyRetries(numRetries) \/ IsNull(GetMultiPath(pathMap, pathID))

CallerPositionsOf(pathID, numRetries) ==
    IF ReturnsAtOnce(pathID, numRetries) THEN {ZeroVector} ELSE CallerPositions

MinDistancesOf(pathID, numRetries) ==
    IF ReturnsAtOnce(pathID, numRetries) THEN {0} ELSE MinDistances

NextWayPointCall(pathID, callerPos, minDistance, numRetries) ==
    /\ \E c \in NextWayPointRuns(pathID, callerPos, minDistance, numRetries) :
          pathMap' = NextWayPointEffect(pathID, c)
    /\ UNCHANGED <<nextPathID, liveRecords, medResPE, lowResPE, issued, deleted, extraCost>>

-----------------------------------------------------------------------------
(* DeletePath, TerrainChange, Update *)

EraseUpTo(pm, pathID) == [h \in {k \in DOMAIN pm : k > pathID} |-> pm[h]]

(* pathMap.erase(pathID) *)
Erase(pm, pathID) == [h \in DOMAIN pm \ {pathID} |-> pm[h]]

(* what DeletePath leaves behind: the registry and the records still allocated *)
DeletePathEffect(pathID) ==
    LET same == [pathMap |-> pathMap, nextPathID |-> nextPathID,
                 liveRecords |-> liveRecords, freed |-> 0]
    IN  IF pathID = 0 THEN same
        ELSE IF pathID \notin DOMAIN pathMap THEN same
        ELSE [same EXCEPT !.pathMap = Erase(pathMap, pathID),
                          !.liveRecords = liveRecords - 1, !.freed = 1]

DeletePath(pathID) ==
    LET eff == DeletePathEffect(pathID)
    IN  /\ pathMap' = eff.pathMap
        /\ nextPathID' = eff.nextPathID
        /\ liveRecords' = eff.liveRecords
        /\ deleted' = IF eff.freed = 1 THEN deleted \cup {pathID} ELSE deleted
        /\ UNCHANGED <<medResPE, lowResPE, issued, extraCost>>

Rects == {<<0, 0, 5, 3>>}
TerrainRects == Rects \cup {<<2, 1, 4, 4>>}

(* CPathEstimator::MapChanged and CPathEstimator::Update *)
MapChanged(pe, rect) == pe \cup {rect}
UpdateEstimator(pe) == {}

TerrainChangeMedOnly(rect) ==
    [calls |-> <<[to |-> "medResPE", rect |-> rect]>>,
     pathMap |-> pathMap, nextPathID |-> nextPathID, liveRecords |-> liveRecords]

(* lines 400-403: the MapChanged calls made, in order, and what is left of *)
(* the registry; rect is <<x1, z1, x2, z2>>                                *)
TerrainChangeEffect(rect) ==
    [calls |-> <<[to |-> "medResPE", rect |-> rect], [to |-> "lowResPE", rect |-> rect]>>,
     pathMap |-> pathMap, nextPathID |-> nextPathID, liveRecords |-> liveRecords]

RECURSIVE Deliver(_, _, _)
(* the estimator named to after the calls addressed to it *)
Deliver(pe, calls, to) ==
    IF calls = <<>> THEN pe
    ELSE Deliver(IF Head(calls).to = to THEN MapChanged(pe, Head(calls).rect) ELSE pe,
                 Tail(calls), to)

TerrainChange(rect) ==
    LET eff == TerrainChangeEffect(rect)
    IN  /\ medResPE' = Deliver(medResPE, eff.calls, "medResPE")
        /\ lowResPE' = Deliver(lowResPE, eff.calls, "lowResPE")
        /\ pathMap' = eff.pathMap
        /\ nextPathID' = eff.nextPathID
        /\ liveRecords' = eff.liveRecords
        /\ UNCHANGED <<issued, deleted, extraCost>>

Update ==
    /\ medResPE' = UpdateEstimator(medResPE)
    /\ lowResPE' = UpdateEstimator(lowResPE)
    /\ UNCHANGED <<pathMap, nextPathID, liveRecords, issued, deleted, extraCost>>

-----------------------------------------------------------------------------
(* UpdatePath *)

Reverse(s) == [k \in DOMAIN s |-> s[Len(s) - k + 1]]

GetDetailedPathSquares(pm, pathID) ==
    IF IsNull(GetMultiPath(pm, pathID)) THEN <<>>
    ELSE Reverse(GetMultiPath(pm, pathID).maxResPath.squares)

(* i * scale * heatProduced with scale = 1.0f / points.size(), handed to the *)
(* int parameter of SetHeatOnSquare                                          *)
HeatValue(i, size, heatProduced) == (i * heatProduced) \div size

(* the SetHeatOnSquare calls of one UpdatePath, in order *)
UpdatePath(owner, pathID) ==
    IF pathID = 0 THEN <<>>
    ELSE IF ~owner.heatMapping THEN <<>>
    ELSE LET points == GetDetailedPathSquares(pathMap, pathID)
         IN  [k \in DOMAIN points |->
                [x |-> points[k][1], y |-> points[k][2],
                 value |-> HeatValue(Len(points) - k + 1, Len(points), owner.heatProduced)]]

HeatsProduced == {7, 30}
Owners == [heatMapping : BOOLEAN, heatProduced : HeatsProduced]

-----------------------------------------------------------------------------
(* SetNodeExtraCost, SetNodeExtraCosts, GetNodeExtraCost *)

mapx == MaxMapX
mapy == 1
Cells == (0..(mapx - 1)) \X (0..(mapy - 1))

(* PathNodeStateBuffer: one overlay for synced and one for unsynced costs *)
NoExtraCosts == [synced \in BOOLEAN |-> [cell \in Cells |-> 0]]

BufSetNodeExtraCost(buf, x, z, cost, synced) ==
    [buf EXCEPT ![synced] = [cell \in Cells |-> IF cell = <<x, z>> THEN cost ELSE @[cell]]]

BufSetNodeExtraCosts(buf, costs, sizex, sizez, synced) ==
    [buf EXCEPT ![synced] = [cell \in Cells |->
                               IF cell[1] < sizex /\ cell[2] < sizez
                               THEN costs[cell] ELSE @[cell]]]

BufGetNodeExtraCost(buf, x, z, synced) == buf[synced][<<x, z>>]

OutOfGridOffByOne(x, z) == x > mapx \/ z > mapy

(* x >= gs->mapx, z >= gs->mapy *)
OutOfGrid(x, z) == x >= mapx \/ z >= mapy

BadSize(sizex, sizez) == sizex < 1 \/ sizex > mapx \/ sizez < 1 \/ sizez > mapy

SetNodeExtraCostFineOnly(x, z, cost, synced) ==
    IF OutOfGrid(x, z) THEN [extraCost |-> extraCost, ret |-> FALSE]
    ELSE [extraCost |->
            [extraCost EXCEPT !.maxRes = BufSetNodeExtraCost(@, x, z, cost, synced)],
          ret |-> TRUE]

(* the overlays after the call and the value it returns *)
SetNodeExtraCostEffect(x, z, cost, synced) ==
    IF OutOfGrid(x, z) THEN [extraCost |-> extraCost, ret |-> FALSE]
    ELSE [extraCost |->
            [maxRes |-> BufSetNodeExtraCost(extraCost.maxRes, x, z, cost, synced),
             medRes |-> BufSetNodeExtraCost(extraCost.medRes, x, z, cost, synced),
             lowRes |-> BufSetNodeExtraCost(extraCost.lowRes, x, z, cost, synced)],
          ret |-> TRUE]

SetNodeExtraCostsEffect(costs, sizex, sizez, synced) ==
    IF BadSize(sizex, sizez) THEN [extraCost |-> extraCost, ret |-> FALSE]
    ELSE [extraCost |->
            [maxRes |-> BufSetNodeExtraCosts(extraCost.maxRes, costs, sizex, sizez, synced),
             medRes |-> BufSetNodeExtraCosts(extraCost.medRes, costs, sizex, sizez, synced),
             lowRes |-> BufSetNodeExtraCosts(extraCost.lowRes, costs, sizex, sizez, synced)],
          ret |-> TRUE]

GetNodeExtraCost(x, z, synced) ==
    IF OutOfGrid(x, z) THEN 0
    ELSE BufGetNodeExtraCost(extraCost.maxRes, x, z, synced)

Costs == {1, 2, 3}
CostArrays == {[cell \in Cells |-> v] : v \in Costs} \cup {[cell \in Cells |-> 1 + (cell[1] % 2)]}

SetNodeExtraCost(x, z, cost, synced) ==
    /\ extraCost' = SetNodeExtraCostEffect(x, z, cost, synced).extraCost
    /\ UNCHANGED <<pathMap, nextPathID, liveRecords, medResPE, lowResPE, issued, deleted>>

SetNodeExtraCosts(costs, sizex, sizez, synced) ==
    /\ extraCost' = SetNodeExtraCostsEffect(costs, sizex, sizez, synced).extraCost
    /\ UNCHANGED <<pathMap, nextPathID, liveRecords, medResPE, lowResPE, issued, deleted>>

-----------------------------------------------------------------------------

Init ==
    /\ pathMap = <<>>
    /\ nextPathID = 0
    /\ liveRecords = 0
    /\ medResPE = {}
    /\ lowResPE = {}
    /\ issued = {}
    /\ deleted = {}
    /\ extraCost = [maxRes |-> NoExtraCosts, medRes |-> NoExtraCosts, lowRes |-> NoExtraCosts]

(* no path is live and fewer than MaxPaths were followed *)
OnePathAtATime == liveRecords = 0 /\ Cardinality(issued) < MaxPaths

(* Spec follows one path at a time, MaxPaths of them, through every kind of request *)
Next ==
    \/ \E start \in RequestPositions, goal \in RequestPositions,
          goalRadius \in Radii, caller \in Callers :
          /\ OnePathAtATime
          /\ \E synced \in BOOLEAN : RequestPathSynced(start, goal, goalRadius, caller, synced)
    \/ \E pathID \in Handles, numRetries \in RetryDepths :
          \E callerPos \in CallerPositionsOf(pathID, numRetries),
             minDistance \in MinDistancesOf(pathID, numRetries) :
             NextWayPointCall(pathID, callerPos, minDistance, numRetries)
    \/ \E pathID \in Handles : DeletePath(pathID)

Spec == Init /\ [][Next]_vars

(* SpecRegistry holds several paths at once, each requested where it stands, *)
(* while the terrain changes and the simulation ticks                        *)
NextRegistry ==
    \/ \E caller \in Callers :
          /\ liveRecords < MaxLive
          /\ \E synced \in BOOLEAN : RequestPathSynced(WP(1), WP(1), 0, caller, synced)
    \/ \E pathID \in Handles, numRetries \in RetryDepths :
          \E callerPos \in CallerPositionsOf(pathID, numRetries),
             minDistance \in MinDistancesOf(pathID, numRetries) :
             NextWayPointCall(pathID, callerPos, minDistance, numRetries)
    \/ \E pathID \in Handles : DeletePath(pathID)
    \/ \E rect \in Rects : TerrainChange(rect)
    \/ Update

SpecRegistry == Init /\ [][NextRegistry]_vars

(* SpecRequest makes every kind of request, one path at a time, and deletes it *)
NextRequest ==
    \/ \E start \in RequestPositions, goal \in RequestPositions,
          goalRadius \in Radii, caller \in Callers :
          /\ OnePathAtATime
          /\ \E synced \in BOOLEAN : RequestPathSynced(start, goal, goalRadius, caller, synced)
    \/ \E pathID \in Handles : DeletePath(pathID)

SpecRequest == Init /\ [][NextRequest]_vars

(* SpecOverlay sets extra costs, cell by cell and in bulk, inside and outside the grid *)
NextOverlay ==
    \/ \E x \in 0..mapx, z \in 0..mapy, cost \in Costs, synced \in BOOLEAN :
          SetNodeExtraCost(x, z, cost, synced)
    \/ \E costs \in CostArrays, sizex \in 0..(mapx + 1), sizez \in 0..(mapy + 1),
          synced \in BOOLEAN :
          SetNodeExtraCosts(costs, sizex, sizez, synced)

SpecOverlay == Init /\ [][NextOverlay]_vars

(* SpecTerrain reports changes of two rectangles while paths are requested *)
(* and deleted and the simulation ticks                                    *)
NextTerrain ==
    \/ \E caller \in Callers :
          /\ liveRecords < MaxLive
          /\ \E synced \in BOOLEAN : RequestPathSynced(WP(1), WP(1), 0, caller, synced)
    \/ \E pathID \in Handles : DeletePath(pathID)
    \/ \E rect \in TerrainRects : TerrainChange(rect)
    \/ Update

SpecTerrain == Init /\ [][NextTerrain]_vars

-----------------------------------------------------------------------------
(* Properties.  A step that moves nextPathID is a RequestPath that stored a *)
(* record; the handle it returned is the new value of nextPathID.           *)

StoreStep == nextPathID' # nextPathID

(* the runs of every request, by its arguments *)
RequestRuns ==
    [start \in RequestPositions, goal \in RequestPositions,
     goalRadius \in Radii, caller \in Callers |->
        RequestPathCall(start, goal, goalRadius, caller)]

(* C1: every handle returned by a successful request is non-zero and differs *)
(* from every handle returned before, however many requests were made.       *)
HandlesFreshAndNonZero ==
    [][StoreStep => nextPathID' # 0 /\ nextPathID' \notin issued]_vars

(* C2: once DeletePath(h) has removed a record, every NextWayPoint call on h, *)
(* with any arguments, returns the no-path sentinel.                          *)
DeletedHandleGivesNoPath ==
    \A pathID \in deleted, callerPos \in CallerPositions,
       minDistance \in MinDistances, numRetries \in RetryDepths :
       \A c \in NextWayPointRuns(pathID, callerPos, minDistance, numRetries) :
          c.waypoint = noPathPoint

(* C3: a request whose final outcome is Error returns handle 0, leaves the  *)
(* registry and the handle counter as they were, and releases the record it *)
(* built: one delete for its one new, no allocation left behind.            *)
ErrorStoresNothing ==
    \A start \in RequestPositions, goal \in RequestPositions,
       goalRadius \in Radii, caller \in Callers :
       \A c \in RequestRuns[start, goal, goalRadius, caller] :
          c.result = "Error" =>
             LET eff == RequestPathEffect(c)
             IN  /\ eff.pathID = 0
                 /\ eff.pathMap = pathMap
                 /\ eff.nextPathID = nextPathID
                 /\ Count(c.ev, "new") = 1 /\ Count(c.ev, "delete") = 1
                 /\ eff.liveRecords = liveRecords

(* a failed request arrives while the registry holds a record *)
ErrorWithRecordsStored ==
    /\ pathMap # <<>> /\ nextPathID # 0 /\ liveRecords < MaxLive
    /\ \E caller \in Callers :
          \E c \in RequestPathCall(WP(1), WP(1), 0, caller) : c.result = "Error"

(* C4: NextWayPoint with handle 0, with a handle that is not registered or  *)
(* with numRetries above 4 returns the no-path sentinel, changes no record, *)
(* runs no search and neither unblocks nor blocks anything.                 *)
NoPathWithoutEffect ==
    \A pathID \in Handles, callerPos \in CallerPositions,
       minDistance \in MinDistances, numRetries \in RetryDepths :
       (pathID = 0 \/ pathID \notin DOMAIN pathMap \/ numRetries > MaxRetries) =>
          \A c \in NextWayPointRuns(pathID, callerPos, minDistance, numRetries) :
             /\ c.waypoint = noPathPoint
             /\ NextWayPointEffect(pathID, c) = pathMap
             /\ c.ev = <<>>

(* a record with waypoints to give is asked at depth 5, next to an unknown handle *)
RetriesExhaustedOnUsablePath ==
    \E pathID \in DOMAIN pathMap \ {0} :
       /\ pathMap[pathID].maxResPath.path # <<>>
       /\ \E c \in NextWayPointRuns(pathID, WP(0), 0, MaxRetries + 1) :
             c.waypoint = noPathPoint
       /\ \E c \in NextWayPointRuns(pathID, WP(0), 0, 0) : c.waypoint # noPathPoint
       /\ \E other \in Handles \ DOMAIN pathMap :
             \E c \in NextWayPointRuns(other, WP(0), 0, 0) : c.waypoint = noPathPoint

(* C5: every record a request stores with an outcome other than Ok has a   *)
(* non-empty fine tier at the moment it is stored.                         *)
StoredUnreachableHasFineWaypoint ==
    [][StoreStep =>
          LET mp == pathMap'[nextPathID']
          IN  mp.searchResult # "Ok" => mp.maxResPath.path # <<>>]_vars

(* C6: a stored record whose outcome is Ok and that still holds waypoints  *)
(* in some tier is never stuck: some NextWayPoint call at depth 0 returns  *)
(* a waypoint or at least moves the record on.                             *)
OkRecordNeverStuck ==
    \A pathID \in DOMAIN pathMap \ {0} :
       (pathMap[pathID].searchResult = "Ok" /\ ~AllTiersEmpty(pathMap[pathID])) =>
          \E callerPos \in CallerPositions, minDistance \in MinDistances :
             \E c \in NextWayPointRuns(pathID, callerPos, minDistance, 0) :
                c.waypoint # noPathPoint \/ c.mp # pathMap[pathID]

(* C7: every NextWayPoint call ends.  Its nested activations have depths    *)
(* numRetries, numRetries + 1, ...; at most 5 of them (depths 0 to 4) get  *)
(* past the retry test, one at depth 5 returns the sentinel at once, and   *)
(* the loop of an activation runs at most once per fine-tier waypoint it   *)
(* started with, plus the pass that finds the tier empty.                  *)
RetriesAndLoopBounded ==
    \A pathID \in Handles, callerPos \in CallerPositions,
       minDistance \in MinDistances, numRetries \in RetryDepths :
       \A c \in NextWayPointRuns(pathID, callerPos, minDistance, numRetries) :
          /\ c.acts # <<>>
          /\ \A k \in DOMAIN c.acts :
                /\ c.acts[k].n = numRetries + k - 1
                /\ c.acts[k].n <= MaxRetries + 1
                /\ c.acts[k].iters <= c.acts[k].fine + 1
                /\ c.acts[k].n > MaxRetries =>
                      c.acts[k].iters = 0 /\ c.waypoint = noPathPoint
          /\ Cardinality({k \in DOMAIN c.acts : c.acts[k].n <= MaxRetries}) <= MaxRetries + 1

(* a call on a record with waypoints left retries down to depth 5 *)
RetriesRunOut ==
    \E pathID \in DOMAIN pathMap \ {0}, callerPos \in CallerPositions,
       minDistance \in MinDistances :
       \E c \in NextWayPointRuns(pathID, callerPos, minDistance, 0) :
          /\ Len(c.acts) = MaxRetries + 2
          /\ ~AllTiersEmpty(pathMap[pathID])
          /\ c.waypoint = noPathPoint

(* a step that stores the record of a request made where the caller stands *)
StoreStepStartIsGoal ==
    /\ StoreStep
    /\ nextPathID' # 0
    /\ \E pos \in RequestPositions, goalRadius \in Radii, caller \in Callers :
          \E c \in RequestRuns[pos, pos, goalRadius, caller] :
             ShouldStore(c.result) /\ pathMap' = RequestPathEffect(c).pathMap

(* C8: a request with start = goal that returns a non-zero handle stores a *)
(* record with at least one waypoint, and the first NextWayPoint call on   *)
(* the handle at depth 0 returns a waypoint, not the sentinel, in its      *)
(* first activation.                                                       *)
StartIsGoalYieldsWaypoint ==
    [][StoreStepStartIsGoal =>
          LET mp == pathMap'[nextPathID']
          IN  /\ ~AllTiersEmpty(mp)
              /\ \A callerPos \in CallerPositions, minDistance \in MinDistances :
                    \A c \in NextWayPoint(NewContext(mp), nextPathID', callerPos,
                                          minDistance, 0) :
                       c.waypoint # noPathPoint /\ Len(c.acts) = 1]_vars

(* C9 as stated: with all three tiers of a registered record empty,        *)
(* NextWayPoint at depth 0 to 4 returns the stored final goal if the       *)
(* outcome is Ok and the sentinel otherwise, and leaves the record as it is *)
DrainedGivesStoredGoal ==
    \A pathID \in DOMAIN pathMap, callerPos \in CallerPositions,
       minDistance \in MinDistances, numRetries \in RetryDepths :
       (AllTiersEmpty(pathMap[pathID]) /\ numRetries <= MaxRetries) =>
          \A c \in NextWayPointRuns(pathID, callerPos, minDistance, numRetries) :
             /\ c.waypoint = IF pathMap[pathID].searchResult = "Ok"
                             THEN pathMap[pathID].finalGoal ELSE noPathPoint
             /\ NextWayPointEffect(pathID, c) = pathMap

(* C9 amended: with all three tiers of a record registered under a non-zero *)
(* handle empty, NextWayPoint at depth 0 to 4 returns the stored final goal *)
(* with its vertical component set to 0 if the outcome is Ok and the        *)
(* sentinel otherwise, runs no search and leaves the record as it is, so    *)
(* each such call has this one result.                                      *)
DrainedGivesGroundedGoal ==
    \A pathID \in DOMAIN pathMap \ {0}, callerPos \in CallerPositions,
       minDistance \in MinDistances, numRetries \in RetryDepths :
       (AllTiersEmpty(pathMap[pathID]) /\ numRetries <= MaxRetries) =>
          /\ Cardinality(NextWayPointRuns(pathID, callerPos, minDistance, numRetries)) = 1
          /\ \A c \in NextWayPointRuns(pathID, callerPos, minDistance, numRetries) :
                /\ c.waypoint = IF pathMap[pathID].searchResult = "Ok"
                                THEN [pathMap[pathID].finalGoal EXCEPT !.y = 0]
                                ELSE noPathPoint
                /\ c.ev = <<>>
                /\ NextWayPointEffect(pathID, c) = pathMap

(* a drained record whose goal lies above ground level *)
DrainedWithRaisedGoal ==
    \E pathID \in DOMAIN pathMap \ {0} :
       /\ AllTiersEmpty(pathMap[pathID])
       /\ pathMap[pathID].searchResult = "Ok"
       /\ pathMap[pathID].finalGoal.y # 0
       /\ \E c \in NextWayPointRuns(pathID, WP(0), 0, 0) :
             c.waypoint = [pathMap[pathID].finalGoal EXCEPT !.y = 0]

(* C10: the position NextWayPoint returns has vertical component 0 on every *)
(* return path: a popped waypoint, the final goal, the sentinel, a retry.   *)
ReturnedAtGroundLevel ==
    \A pathID \in Handles, callerPos \in CallerPositions,
       minDistance \in MinDistances, numRetries \in RetryDepths :
       \A c \in NextWayPointRuns(pathID, callerPos, minDistance, numRetries) :
          c.waypoint.y = 0

(* a waypoint stored above ground level is popped and returned *)
RaisedWaypointReturned ==
    \E pathID \in DOMAIN pathMap \ {0}, callerPos \in CallerPositions :
       /\ pathMap[pathID].maxResPath.path # <<>>
       /\ Back(pathMap[pathID].maxResPath.path).y # 0
       /\ \E c \in NextWayPointRuns(pathID, callerPos, 0, 0) :
             /\ c.waypoint = [Back(pathMap[pathID].maxResPath.path) EXCEPT !.y = 0]
             /\ Len(c.mp.maxResPath.path) < Len(pathMap[pathID].maxResPath.path)

(* C11: DeletePath with handle 0 or with a handle that is not registered   *)
(* changes nothing; with a registered handle it removes that entry alone:  *)
(* every other entry stays with its record as it was, and the handle       *)
(* counter is not touched.                                                 *)
DeleteRemovesOneEntry ==
    \A pathID \in Handles :
       LET eff == DeletePathEffect(pathID)
       IN  IF pathID = 0 \/ pathID \notin DOMAIN pathMap
           THEN /\ eff.pathMap = pathMap /\ eff.liveRecords = liveRecords
                /\ eff.nextPathID = nextPathID
           ELSE /\ DOMAIN eff.pathMap = DOMAIN pathMap \ {pathID}
                /\ eff.nextPathID = nextPathID
                /\ \A h \in DOMAIN eff.pathMap : eff.pathMap[h] = pathMap[h]
                /\ eff.liveRecords = liveRecords - 1

(* two records are registered and the later one can be deleted *)
TwoRegisteredOneDeletable ==
    \E h1 \in DOMAIN pathMap, h2 \in DOMAIN pathMap :
       /\ 0 < h1 /\ h1 < h2
       /\ pathMap[h1].maxResPath.path # <<>>
       /\ DOMAIN DeletePathEffect(h2).pathMap = DOMAIN pathMap \ {h2}

(* C12: the records allocated and not yet released are exactly the records *)
(* the registry holds: a record is released by the failed request that     *)
(* built it or by DeletePath of its handle, once, and by nothing else.     *)
LiveRecordsAreRegistered ==
    liveRecords = Cardinality(DOMAIN pathMap)

(* the searches among the events of a run *)
Engines == {"maxResPF", "medResPE", "lowResPE"}
Searches(ev) == {k \in DOMAIN ev : ev[k].e \in Engines}
Positions(ev, e) == {k \in DOMAIN ev : ev[k].e = e}

(* C13: a request made for an entity unblocks it once, before the first    *)
(* search, and blocks it once, after the last one; every search of the     *)
(* tiers and of the refinement at request time runs while it is unblocked, *)
(* and it is blocked when the call returns, whatever the outcome, Error    *)
(* included; a record that is stored keeps the entity.                     *)
RequestSearchesUnblocked ==
    OnePathAtATime =>
    \A start \in RequestPositions, goal \in RequestPositions, goalRadius \in Radii :
       \A c \in RequestRuns[start, goal, goalRadius, "unit"] :
          /\ Cardinality(Positions(c.ev, "UnBlock")) = 1
          /\ Cardinality(Positions(c.ev, "Block")) = 1
          /\ Searches(c.ev) # {}
          /\ \A k \in Searches(c.ev) :
                /\ c.ev[k].blk = FALSE
                /\ \A u \in Positions(c.ev, "UnBlock") : u < k
                /\ \A b \in Positions(c.ev, "Block") : k < b
          /\ c.ev[Len(c.ev)].e = "Block"
          /\ c.blk = TRUE
          /\ LET eff == RequestPathEffect(c)
             IN  eff.pathID # 0 => eff.pathMap[eff.pathID].caller = "unit"

(* the record of an entity's request that ran tier and refinement searches *)
(* is registered, and the same request can also end in Error               *)
EntityRequestStored ==
    \E h \in DOMAIN pathMap, start \in RequestPositions, goal \in RequestPositions :
       /\ pathMap[h].caller = "unit"
       /\ \E c \in RequestRuns[start, goal, 0, "unit"] :
             /\ c.mp = pathMap[h]
             /\ Cardinality(Searches(c.ev)) >= 3
             /\ \E k \in Searches(c.ev) : c.ev[k].def = "ranged"
       /\ \E c \in RequestRuns[start, goal, 0, "unit"] : c.result = "Error"

(* C14: every refinement search NextWayPoint starts, by LowRes2MedRes or by *)
(* MedRes2MaxRes, runs while the entity of the record is unblocked, and    *)
(* the entity is blocked again when NextWayPoint returns.                  *)
RefinementSearchesUnblocked ==
    \A pathID \in DOMAIN pathMap \ {0}, callerPos \in CallerPositions,
       minDistance \in MinDistances :
       pathMap[pathID].caller = "unit" =>
          \A c \in NextWayPointRuns(pathID, callerPos, minDistance, 0) :
             /\ \A k \in Searches(c.ev) : c.ev[k].blk = FALSE
             /\ c.blk = TRUE

(* the first search of a run *)
FirstSearch(ev) == ev[CHOOSE k \in Searches(ev) : \A j \in Searches(ev) : k <= j]

InLongBand(start, goal) ==
    GoalDist2D(ClampInBounds(start), ClampInBounds(goal)) >= ESTIMATE_DISTANCE

(* C15: a request in the long band whose first search, by the low          *)
(* estimator, reports GoalOutOfRange makes at least one more search with   *)
(* the goal constraint disabled before it ends with Error and handle 0.    *)
LongBandRetriesUnconstrained ==
    OnePathAtATime =>
    \A start \in RequestPositions, goal \in RequestPositions,
       goalRadius \in Radii, caller \in Callers :
       InLongBand(start, goal) =>
          \A c \in RequestRuns[start, goal, goalRadius, caller] :
             (/\ FirstSearch(c.ev).e = "lowResPE"
              /\ FirstSearch(c.ev).res = "GoalOutOfRange"
              /\ RequestPathEffect(c).pathID = 0
              /\ c.result = "Error") =>
                \E k \in Searches(c.ev) :
                   /\ c.ev[k] # FirstSearch(c.ev)
                   /\ c.ev[k].unconstrained

(* after a first path, a long request can fail that way in two searches *)
LongBandFailsAfterFallback ==
    /\ OnePathAtATime /\ deleted # {}
    /\ \E c \in RequestRuns[WP(0), WP(MaxIdx), 0, "unit"] :
          /\ InLongBand(WP(0), WP(MaxIdx))
          /\ FirstSearch(c.ev).res = "GoalOutOfRange"
          /\ c.result = "Error"
          /\ Cardinality(Searches(c.ev)) = 2
          /\ RequestPathEffect(c).nextPathID = nextPathID

(* a step an unsynced request can take *)
UnsyncedRequestStep ==
    /\ StoreStep
    /\ \E start \in RequestPositions, goal \in RequestPositions,
          goalRadius \in Radii, caller \in Callers :
          RequestPathSynced(start, goal, goalRadius, caller, FALSE)

(* C16: an unsynced request changes nothing a synced operation observes:   *)
(* the handle the next synced request returns and the records behind the   *)
(* handles are what they were before it.                                   *)
UnsyncedRequestUnobserved ==
    [][UnsyncedRequestStep =>
          /\ NextID(nextPathID') = NextID(nextPathID)
          /\ \A h \in DOMAIN pathMap : h \in DOMAIN pathMap' /\ pathMap'[h] = pathMap[h]]_vars

RECURSIVE SumOfValues(_)
SumOfValues(calls) ==
    IF calls = <<>> THEN 0 ELSE Head(calls).value + SumOfValues(Tail(calls))

(* C20: for an owner whose movement class maps heat and a registered       *)
(* handle whose fine tier has n >= 1 cells, the values one UpdatePath      *)
(* deposits on the cells add up to the owner's heatProduced.               *)
HeatDepositedIsHeatProduced ==
    \A pathID \in DOMAIN pathMap \ {0}, owner \in Owners :
       (owner.heatMapping /\ Len(GetDetailedPathSquares(pathMap, pathID)) >= 1) =>
          SumOfValues(UpdatePath(owner, pathID)) = owner.heatProduced

(* C18: after any setter calls, of one cell or in bulk, accepted or        *)
(* rejected, the overlays of the fine, medium and coarse tier hold the     *)
(* same value for every cell and each variant, and the getter, reading the *)
(* fine tier, reports the value every tier uses.                           *)
TiersShareExtraCosts ==
    \A synced \in BOOLEAN, cell \in Cells :
       /\ extraCost.medRes[synced][cell] = extraCost.maxRes[synced][cell]
       /\ extraCost.lowRes[synced][cell] = extraCost.maxRes[synced][cell]
       /\ GetNodeExtraCost(cell[1], cell[2], synced) = extraCost.medRes[synced][cell]
       /\ GetNodeExtraCost(cell[1], cell[2], synced) = extraCost.lowRes[synced][cell]

(* the variants differ and two cells of the coarse tier carry different costs *)
OverlaysSetApart ==
    /\ extraCost.lowRes[TRUE] # extraCost.lowRes[FALSE]
    /\ \E c1 \in Cells, c2 \in Cells :
          extraCost.lowRes[TRUE][c1] # 0 /\ extraCost.lowRes[TRUE][c1] # extraCost.lowRes[TRUE][c2]

(* C19: a setter called with a cell outside the grid, or a bulk load with  *)
(* a size below 1 or above the grid's, returns false and changes no        *)
(* overlay; the getter called outside the grid returns 0.                  *)
OutOfGridRejected ==
    /\ \A x \in 0..(mapx + 1), z \in 0..(mapy + 1), cost \in Costs, synced \in BOOLEAN :
          (x >= mapx \/ z >= mapy) =>
             /\ SetNodeExtraCostEffect(x, z, cost, synced).ret = FALSE
             /\ SetNodeExtraCostEffect(x, z, cost, synced).extraCost = extraCost
             /\ GetNodeExtraCost(x, z, synced) = 0
    /\ \A costs \in CostArrays, sizex \in 0..(mapx + 1), sizez \in 0..(mapy + 1),
          synced \in BOOLEAN :
          (sizex < 1 \/ sizex > mapx \/ sizez < 1 \/ sizez > mapy) =>
             /\ SetNodeExtraCostsEffect(costs, sizex, sizez, synced).ret = FALSE
             /\ SetNodeExtraCostsEffect(costs, sizex, sizez, synced).extraCost = extraCost

(* costs are set everywhere, and calls outside the grid are turned down *)
RejectedWithCostsSet ==
    /\ \A synced \in BOOLEAN, cell \in Cells : extraCost.maxRes[synced][cell] # 0
    /\ SetNodeExtraCostEffect(mapx, 0, 1, TRUE).ret = FALSE
    /\ SetNodeExtraCostEffect(0, 0, 1, TRUE).ret = TRUE
    /\ GetNodeExtraCost(0, mapy, FALSE) = 0

(* the tier searches of every request, by its arguments *)
TierRuns ==
    [start \in RequestPositions, goal \in RequestPositions,
     goalRadius \in Radii, caller \in Callers |->
        TierSearches(ClampInBounds(start), ClampInBounds(goal), goalRadius, caller)]

IsSearch(e) == e.e \in Engines

(* the GetPath calls of a run, in the order they were made *)
SearchSeq(ev) == SelectSeq(ev, IsSearch)

InShortBand(start, goal) ==
    GoalDist2D(ClampInBounds(start), ClampInBounds(goal)) < DETAILED_DISTANCE

(* the engines of the short band, in the order of lines 106, 118 and 121 *)
ShortBandOrder == <<"maxResPF", "medResPE", "lowResPE">>

(* the short band tries the engines in order, each one after the first only *)
(* when the result so far is not Ok                                         *)
ShortBandCascade(s) ==
    /\ s # <<>> /\ Len(s) <= 3
    /\ \A k \in DOMAIN s : s[k].e = ShortBandOrder[k] /\ s[k].def = "peDef"
    /\ \A k \in DOMAIN s : k > 1 => s[k - 1].res # "Ok"

(* C21 as stated: in a short-band request the fine engine is tried first,  *)
(* the medium estimator only if the result so far is not Ok, the coarse    *)
(* estimator only if it is still not Ok, and each of these fallback        *)
(* searches runs with the goal constraint disabled.                        *)
ShortBandFallbackUnconstrained ==
    OnePathAtATime =>
    \A start \in RequestPositions, goal \in RequestPositions,
       goalRadius \in Radii, caller \in Callers :
       InShortBand(start, goal) =>
          \A c \in TierRuns[start, goal, goalRadius, caller] :
             LET s == SearchSeq(c.ev)
             IN  /\ ShortBandCascade(s)
                 /\ \A k \in DOMAIN s : k > 1 => s[k].unconstrained

(* C21 amended: in a short-band request the fine engine is tried first,    *)
(* the medium estimator only if the result so far is not Ok, the coarse    *)
(* estimator only if it is still not Ok, and each of these fallback        *)
(* searches runs with the goal constraint still in force: the short band   *)
(* never disables it, and the record keeps it enabled.                     *)
ShortBandFallbackConstrained ==
    OnePathAtATime =>
    \A start \in RequestPositions, goal \in RequestPositions,
       goalRadius \in Radii, caller \in Callers :
       InShortBand(start, goal) =>
          \A c \in TierRuns[start, goal, goalRadius, caller] :
             LET s == SearchSeq(c.ev)
             IN  /\ ShortBandCascade(s)
                 /\ \A k \in DOMAIN s : k > 1 => ~s[k].unconstrained
                 /\ ~c.mp.peDef.constraintDisabled

(* the record of a short-band request that fell back to both estimators is *)
(* registered                                                              *)
ShortBandFellBackTwice ==
    \E h \in DOMAIN pathMap, start \in RequestPositions, goal \in RequestPositions :
       /\ InShortBand(start, goal) /\ start # goal
       /\ \E t \in TierRuns[start, goal, 0, "unit"] :
             /\ Len(SearchSeq(t.ev)) = 3
             /\ SearchSeq(t.ev)[3].res = "Ok"
             /\ \E c \in RequestRuns[start, goal, 0, "unit"] :
                   /\ c.mp = pathMap[h]
                   /\ Len(c.ev) > Len(t.ev)
                   /\ SubSeq(c.ev, 1, Len(t.ev)) = t.ev

InMediumBand(start, goal) ==
    ~InShortBand(start, goal) /\ ~InLongBand(start, goal)

Estimators == {"medResPE", "lowResPE"}

(* C22: in a medium-band or long-band request the fine engine is invoked   *)
(* only if the estimator search just before it returned CantGetCloser and  *)
(* the squared planar start-goal distance exceeds the squared goal radius; *)
(* in the long band the medium estimator is tried between the coarse       *)
(* estimator and the fine engine; the search with the constraint disabled  *)
(* runs last and only if the result is not Ok.                             *)
FineOnlyAfterCantGetCloser ==
    OnePathAtATime =>
    \A start \in RequestPositions, goal \in RequestPositions,
       goalRadius \in Radii, caller \in Callers :
       ~InShortBand(start, goal) =>
          \A c \in TierRuns[start, goal, goalRadius, caller] :
             LET s == SearchSeq(c.ev)
                 first == IF InLongBand(start, goal) THEN "lowResPE" ELSE "medResPE"
             IN  /\ s # <<>> /\ s[1].e = first /\ ~s[1].unconstrained
                 /\ \A k \in DOMAIN s :
                       s[k].e = "maxResPF" =>
                          /\ k > 1
                          /\ s[k - 1].e \in Estimators
                          /\ s[k - 1].res = "CantGetCloser"
                          /\ SqDistance2D(ClampInBounds(start), ClampInBounds(goal))
                                > Square(goalRadius)
                          /\ InLongBand(start, goal) =>
                                k = 3 /\ s[1].e = "lowResPE" /\ s[2].e = "medResPE"
                 /\ \A k \in DOMAIN s :
                       s[k].unconstrained =>
                          k = Len(s) /\ k > 1 /\ s[k - 1].res # "Ok" /\ s[k].e = first

(* a long request within its goal radius is stored after the fallback      *)
(* alone, and the same request with radius 0 can go through all three      *)
(* engines before the fallback                                             *)
CascadeAndFallbackTaken ==
    \E h \in DOMAIN pathMap :
       /\ InLongBand(WP(0), WP(MaxIdx))
       /\ SqDistance2D(WP(0), WP(MaxIdx)) = Square(MapSizeX)
       /\ \E t \in TierRuns[WP(0), WP(MaxIdx), MapSizeX, "unit"] :
             /\ Len(SearchSeq(t.ev)) = 2
             /\ SearchSeq(t.ev)[1].res = "CantGetCloser"
             /\ SearchSeq(t.ev)[2].unconstrained
             /\ \E c \in RequestRuns[WP(0), WP(MaxIdx), MapSizeX, "unit"] :
                   /\ c.mp = pathMap[h]
                   /\ Len(c.ev) > Len(t.ev)
                   /\ SubSeq(c.ev, 1, Len(t.ev)) = t.ev
       /\ \E t \in TierRuns[WP(0), WP(MaxIdx), 0, "unit"] :
             /\ Len(SearchSeq(t.ev)) = 4
             /\ SearchSeq(t.ev)[3].e = "maxResPF"
             /\ SearchSeq(t.ev)[4].unconstrained

(* C23: NextWayPoint on a registered handle refines into the fine tier     *)
(* whenever the fine tier holds at most 2 waypoints or its tail is within  *)
(* the refinement threshold of callerPos, the medium tier having waypoints *)
(* to refine, and it attempts a refinement search whenever the fine tier   *)
(* is empty while a coarser tier still holds waypoints.                    *)
RefinementTriggeredWhenDue ==
    \A pathID \in DOMAIN pathMap \ {0}, callerPos0 \in CallerPositions,
       minDistance \in MinDistances :
       LET mp == pathMap[pathID]
           callerPos == EffectiveCallerPos(mp, callerPos0)
           fine == mp.maxResPath.path
           due == \/ Len(fine) <= 2
                  \/ SqDistance2D(Back(fine), callerPos)
                        < Square(MIN_DETAILED_DISTANCE * SQUARE_SIZE)
           coarser == mp.medResPath.path # <<>> \/ mp.lowResPath.path # <<>>
       IN  \A c \in NextWayPointRuns(pathID, callerPos0, minDistance, 0) :
              /\ (due /\ mp.medResPath.path # <<>>) =>
                    \E k \in Searches(c.ev) : c.ev[k].e = "maxResPF"
              /\ (fine = <<>> /\ coarser) => Searches(c.ev) # {}

(* what a refinement operator must have done to the coarser tier: at      *)
(* least one waypoint gone from the tail, none elsewhere, and the tier     *)
(* empty or its tail no nearer than dist to pos                            *)
TailDropped(before, after, pos, dist) ==
    /\ Len(after) < Len(before)
    /\ after = SubSeq(before, 1, Len(after))
    /\ after = <<>> \/ SqDistance2D(Back(after), pos) >= Square(dist)

RequestTimeRefinements ==
    UNION { LET sp == ClampInBounds(start)
                T == {t \in TierRuns[start, goal, goalRadius, caller] :
                        ShouldStore(t.result) /\ t.result # "CantGetCloser"}
            IN  {<<t.mp, sp>> : t \in T}
                  \cup UNION {{<<d.mp, sp>> : d \in LowRes2MedRes(t, sp)} : t \in T}
            : start \in RequestPositions, goal \in RequestPositions,
              goalRadius \in Radii, caller \in Callers }

(* the records a refinement operator can be called on, with the position:  *)
(* a registered record from where its caller stands, and the record of a   *)
(* request that can be made now                                            *)
RefinementInputs ==
    {<<pathMap[pathID], pos>> : pathID \in DOMAIN pathMap, pos \in CallerPositions}
       \cup (IF OnePathAtATime THEN RequestTimeRefinements ELSE {})

(* C25 as stated: the search a refinement operator runs targets the new    *)
(* nearest remaining waypoint of the coarser tier, or, when no coarser     *)
(* waypoint remains, the coarser tier's own stored path-goal.              *)
RefinementTargetsCoarserTier ==
    \A call \in RefinementInputs :
       LET mp == call[1]
           pos == call[2]
       IN  /\ \A r \in MedRes2MaxRes(NewContext(mp), pos) :
                 \A k \in Searches(r.ev) :
                    r.ev[k].goal = IF r.mp.medResPath.path # <<>>
                                   THEN Back(r.mp.medResPath.path)
                                   ELSE mp.medResPath.pathGoal
           /\ \A r \in LowRes2MedRes(NewContext(mp), pos) :
                 \A k \in Searches(r.ev) :
                    r.ev[k].goal = IF r.mp.lowResPath.path # <<>>
                                   THEN Back(r.mp.lowResPath.path)
                                   ELSE mp.lowResPath.pathGoal

(* C25 amended: a refinement operator called on a non-empty coarser tier   *)
(* runs one search.  It targets the new nearest remaining waypoint of that *)
(* tier; when none remains, MedRes2MaxRes targets the medium tier's stored *)
(* path-goal if the coarse tier still holds waypoints, and otherwise both  *)
(* operators search with the goal definition of the request, that is for   *)
(* the original goal.                                                      *)
RefinementTargetsTierOrRequestGoal ==
    \A call \in RefinementInputs :
       LET mp == call[1]
           pos == call[2]
       IN  /\ \A r \in MedRes2MaxRes(NewContext(mp), pos) :
                 mp.medResPath.path # <<>> =>
                    LET s == SearchSeq(r.ev)
                        left == r.mp.medResPath.path
                    IN  /\ Len(s) = 1 /\ s[1].e = "maxResPF"
                        /\ IF left # <<>>
                           THEN s[1].def = "ranged" /\ s[1].goal = Back(left)
                           ELSE IF mp.lowResPath.path # <<>>
                           THEN s[1].def = "ranged" /\ s[1].goal = mp.medResPath.pathGoal
                           ELSE s[1].def = "peDef" /\ s[1].goal = mp.peDef.goalPos
           /\ \A r \in LowRes2MedRes(NewContext(mp), pos) :
                 mp.lowResPath.path # <<>> =>
                    LET s == SearchSeq(r.ev)
                        left == r.mp.lowResPath.path
                    IN  /\ Len(s) = 1 /\ s[1].e = "medResPE"
                        /\ IF left # <<>>
                           THEN s[1].def = "ranged" /\ s[1].goal = Back(left)
                           ELSE s[1].def = "peDef" /\ s[1].goal = mp.peDef.goalPos

(* the last refinement of a registered record searches for the goal of the *)
(* request, which is not where the medium tier ends; an earlier one, and   *)
(* the one at request time, for the nearest medium waypoint left           *)
LastRefinementForRequestGoal ==
    /\ \E pathID \in DOMAIN pathMap, pos \in CallerPositions :
          LET mp == pathMap[pathID]
          IN  /\ mp.medResPath.path # <<>> /\ mp.lowResPath.path = <<>>
              /\ mp.medResPath.pathGoal # mp.peDef.goalPos
              /\ \E r \in MedRes2MaxRes(NewContext(mp), pos) :
                    /\ r.mp.medResPath.path = <<>>
                    /\ \E k \in Searches(r.ev) : r.ev[k].goal = mp.peDef.goalPos
              /\ \E r \in MedRes2MaxRes(NewContext(mp), ZeroVector) :
                    /\ r.mp.medResPath.path # <<>>
                    /\ \E k \in Searches(r.ev) : r.ev[k].goal = Back(r.mp.medResPath.path)
    /\ \E call \in RequestTimeRefinements :
          \E r \in MedRes2MaxRes(NewContext(call[1]), call[2]) :
             /\ Len(r.mp.medResPath.path) >= 2
             /\ \E k \in Searches(r.ev) :
                   /\ r.ev[k].goal = Back(r.mp.medResPath.path)
                   /\ r.ev[k].goal # call[1].medResPath.pathGoal

(* the target a refinement operator computes from what it left of the     *)
(* coarser tier                                                            *)
ComputedTarget(left, pathGoal) == IF left # <<>> THEN Back(left) ELSE pathGoal

(* the finer tier as the one search of run r left it *)
AsSearchLeftIt(r, finer, old, pos) ==
    LET s == SearchSeq(r.ev)[1]
    IN  r.mp[finer] = GetPath(s.res, pos, s.goal, old)

(* C26 as stated: whenever a refinement search ends with an outcome other  *)
(* than Ok, the finer tier's path-goal is the computed target on return;   *)
(* when the outcome is Ok the operator does not overwrite it.              *)
PathGoalSetUnlessOk ==
    \A call \in RefinementInputs :
       LET mp == call[1]
           pos == call[2]
       IN  /\ \A r \in MedRes2MaxRes(NewContext(mp), pos) :
                 mp.medResPath.path # <<>> =>
                    IF SearchSeq(r.ev)[1].res # "Ok"
                    THEN r.mp.maxResPath.pathGoal
                           = ComputedTarget(r.mp.medResPath.path, mp.medResPath.pathGoal)
                    ELSE AsSearchLeftIt(r, "maxResPath", mp.maxResPath, pos)
           /\ \A r \in LowRes2MedRes(NewContext(mp), pos) :
                 mp.lowResPath.path # <<>> =>
                    IF SearchSeq(r.ev)[1].res # "Ok"
                    THEN r.mp.medResPath.pathGoal
                           = ComputedTarget(r.mp.lowResPath.path, mp.lowResPath.pathGoal)
                    ELSE AsSearchLeftIt(r, "medResPath", mp.medResPath, pos)

(* C26 amended: whenever a refinement search finds no path (CantGetCloser  *)
(* or Error), the finer tier's path-goal is the computed target on return; *)
(* when the outcome is Ok or GoalOutOfRange the operator does not          *)
(* overwrite the path-goal the search left.                                *)
PathGoalSetWhenNoPath ==
    \A call \in RefinementInputs :
       LET mp == call[1]
           pos == call[2]
       IN  /\ \A r \in MedRes2MaxRes(NewContext(mp), pos) :
                 mp.medResPath.path # <<>> =>
                    IF SearchSeq(r.ev)[1].res \in {"CantGetCloser", "Error"}
                    THEN r.mp.maxResPath.pathGoal
                           = ComputedTarget(r.mp.medResPath.path, mp.medResPath.pathGoal)
                    ELSE AsSearchLeftIt(r, "maxResPath", mp.maxResPath, pos)
           /\ \A r \in LowRes2MedRes(NewContext(mp), pos) :
                 mp.lowResPath.path # <<>> =>
                    IF SearchSeq(r.ev)[1].res \in {"CantGetCloser", "Error"}
                    THEN r.mp.medResPath.pathGoal
                           = ComputedTarget(r.mp.lowResPath.path, mp.lowResPath.pathGoal)
                    ELSE AsSearchLeftIt(r, "medResPath", mp.medResPath, pos)

(* a refinement of a registered record can fail, moving the fine tier's    *)
(* path-goal to the target, or stop short of the target, leaving the       *)
(* path-goal where the search ended                                        *)
RefinementFailsAndStopsShort ==
    \E pathID \in DOMAIN pathMap, pos \in CallerPositions :
       LET mp == pathMap[pathID]
           target(r) == ComputedTarget(r.mp.medResPath.path, mp.medResPath.pathGoal)
       IN  /\ mp.medResPath.path # <<>>
           /\ \E r \in MedRes2MaxRes(NewContext(mp), pos) :
                 /\ SearchSeq(r.ev)[1].res = "CantGetCloser"
                 /\ r.mp.maxResPath.pathGoal = target(r)
                 /\ r.mp.maxResPath.pathGoal # mp.maxResPath.pathGoal
           /\ \E r \in MedRes2MaxRes(NewContext(mp), pos) :
                 /\ SearchSeq(r.ev)[1].res = "GoalOutOfRange"
                 /\ r.mp.maxResPath.pathGoal # target(r)

Tiers == {"maxResPath", "medResPath", "lowResPath"}

CellsOf(path) == [k \in DOMAIN path |-> Cell(path[k])]

(* C27: in every registered record, after any requests, NextWayPoint calls *)
(* and refinements, each tier's waypoints and cells are parallel (same     *)
(* length, entry for entry), so the cells UpdatePath walks are the cells   *)
(* of the fine-tier waypoints not yet consumed.                            *)
TiersParallelToCells ==
    \A pathID \in DOMAIN pathMap :
       /\ \A tier \in Tiers :
             pathMap[pathID][tier].squares = CellsOf(pathMap[pathID][tier].path)
       /\ GetDetailedPathSquares(pathMap, pathID)
             = Reverse(CellsOf(pathMap[pathID].maxResPath.path))

CallsTo(calls, to) == {k \in DOMAIN calls : calls[k].to = to}

(* C28: TerrainChange(rect) forwards the same rectangle to the medium and  *)
(* the low estimator, once each, sends nothing to the fine engine, and     *)
(* leaves the registry, every record in it and the handle counter as they  *)
(* were.                                                                   *)
TerrainChangeForwarded ==
    \A rect \in TerrainRects :
       LET eff == TerrainChangeEffect(rect)
       IN  /\ \A to \in Estimators :
                 /\ Cardinality(CallsTo(eff.calls, to)) = 1
                 /\ \A k \in CallsTo(eff.calls, to) : eff.calls[k].rect = rect
           /\ CallsTo(eff.calls, "maxResPF") = {}
           /\ eff.pathMap = pathMap
           /\ eff.nextPathID = nextPathID
           /\ eff.liveRecords = liveRecords
           /\ rect \in Deliver(medResPE, eff.calls, "medResPE")
           /\ rect \in Deliver(lowResPE, eff.calls, "lowResPE")

(* a second rectangle is reported while records are registered and the     *)
(* first rectangle is still pending at both estimators                     *)
SecondRectangleReported ==
    \E rect \in TerrainRects :
       /\ pathMap # <<>> /\ nextPathID # 0
       /\ medResPE # {} /\ lowResPE = medResPE /\ rect \notin medResPE
       /\ Deliver(lowResPE, TerrainChangeEffect(rect).calls, "lowResPE")
             = lowResPE \cup {rect}

====
